---- MODULE Spec2Model ----
(***************************************************************************)
(* The resilience layer of the backend: the per-key token-bucket rate      *)
(* limiter (internal/middleware/ratelimit), the retrying call executor     *)
(* (package retry, second half of ratelimit.go) and the circuit breaker    *)
(* (pkg/circuitbreaker).  Each component has its own specification         *)
(* (SpecRL, SpecRetry, SpecCB); the variables of the components a          *)
(* specification does not exercise stay at their initial values.           *)
(*                                                                         *)
(* Time is an integer number of minutes for the limiter (the clock is      *)
(* observed every TimeStep minutes, every minute in SpecRLFine) and an     *)
(* integer number of abstract ticks for the breaker and the retry timer.   *)
(***************************************************************************)
EXTENDS Integers, Sequences, FiniteSets, TLC

(***************************************************************************)
(* Bounds of the model.                                                    *)
(***************************************************************************)
NumProcs == 2       \* concurrent callers of allow
MaxCalls == 3       \* allow calls issued by the environment in one run
MaxTime == 15       \* last clock reading of the limiter, in minutes
TimeStep == 5       \* minutes between two observations of the clock
SeqCalls == 5       \* allow calls of the single client of SpecRLSeq

MaxAttemptsIn == 2  \* largest Config.MaxAttempts handed to Do
MaxDelayIn == 2     \* largest Config.InitialDelay and Config.MaxDelay handed to Do (ms)
RandDen == 2        \* rand.Float64 draws u / RandDen, u in 0..RandDen-1
NumCallers == 2     \* concurrent callers of Execute
MaxExec == 3        \* Execute calls issued by the environment in one run
MaxNow == 3         \* last clock reading of the breaker
MaxFine == 6        \* last clock reading of SpecRLFine, in minutes
FineCalls == 4      \* allow calls of the single client of SpecRLFine
FairCalls == 2      \* allow calls issued by the environment in SpecRLFair

(***************************************************************************)
(* Program constants of the limiter (minutes).                             *)
(***************************************************************************)
Minute == 1
DefaultMaxRequests == 60
CleanupInterval == 5 * Minute
IdleThreshold == 10 * Minute

Procs == 1..NumProcs
Keys == {"k1"}
Free == 0           \* an unlocked mutex
Sweeper == -1       \* the cleanup goroutine, as a lock holder
NoBucket == 0       \* a nil *bucket / a key absent from the map

\* The configurations handed to New: requests per window, window in minutes.
RLConfigs ==
    { [MaxRequestsPerMinute |-> 1, WindowDuration |-> 5],
      [MaxRequestsPerMinute |-> 2, WindowDuration |-> 10],
      [MaxRequestsPerMinute |-> 1, WindowDuration |-> 15],
      [MaxRequestsPerMinute |-> 2, WindowDuration |-> 30] }

VARIABLES
    now,            \* the clock (time.Now)
    rl,             \* RateLimiter: maxTokens, refillRate, tokensPerReq
    buckets,        \* rl.buckets: key -> bucket reference (NoBucket: absent)
    heap,           \* every bucket ever allocated: tokens, lastRefill, mu
    rlmu,           \* rl.mu: the writer (w) and the readers (r) holding it
    allowPc,        \* per caller: position in allow
    allowKey,       \* per caller: the key argument
    allowB,         \* per caller: the local b
    cleanupPc,      \* position of the cleanup goroutine
    cleanupNow,     \* cleanup's local now
    cleanupTodo,    \* keys the range loop has not visited yet
    cleanupCur,     \* key whose bucket cleanup holds locked
    tickPending,    \* a tick waits in cleanupTicker.C
    budget,         \* allow calls the environment may still make
    granted,        \* observer: per key, calls admitted since the clock last moved
    swept,          \* observer: cleanup deleted a bucket since the clock last moved
    hist,           \* observer: the calls made so far, in order
    credit          \* observer: the tokens credited to the one bucket of SpecRLFine

VARIABLES
    doCfg,          \* Do: cfg, the Config argument (a copy: Do overwrites its zero fields)
    ctx,            \* ctx.Err(): "nil" until the context is cancelled or expires
    doPc,           \* Do: position
    attempt,        \* Do: attempt
    delay,          \* Do: delay (ms)
    lastErr,        \* Do: lastErr
    doRet,          \* Do: the value returned
    timer,          \* the time.After of line 235: its duration d, and whether it fired
    opLog,          \* observer: what each invocation of operation returned
    ctxAtCall,      \* observer: ctx.Err() when Do was called
    cancelPc,       \* observer: where Do was when the context was cancelled
    callsAtCancel   \* observer: invocations made before the cancellation

rlVars == << now, rl, buckets, heap, rlmu, allowPc, allowKey, allowB,
             cleanupPc, cleanupNow, cleanupTodo, cleanupCur, tickPending,
             budget >>

rlObs == << granted, swept, hist >>

VARIABLES
    cbNow,          \* the clock read by the breaker (time.Now), from 1 on
    cbCfg,          \* CircuitBreaker: maxRequests, interval, timeout, the thresholds
    cb,             \* CircuitBreaker: state, generation, counts, expiry; and
                    \* changes, the invocations of onStateChange so far
    cbmu,           \* cb.mu: its holder
    execPc,         \* per caller: position in Execute
    execGen,        \* per caller: Execute's generation
    execOut,        \* per caller: how fn ended ("ok", "err", "panic")
    execBudget,     \* Execute calls the environment may still make
    execRet,        \* observer: what the Execute that returned last returned
    okDone,         \* observer: calls whose fn succeeded and that returned
    failDone        \* observer: calls whose fn failed or panicked and that returned

cbVars == << cbNow, cbCfg, cb, cbmu, execPc, execGen, execOut, execBudget >>

cbObs == << execRet, okDone, failDone >>

doVars == << doCfg, ctx, doPc, attempt, delay, lastErr, doRet, timer >>

doObs == << opLog, ctxAtCall, cancelPc, callsAtCancel >>

vars == << rlVars, rlObs, credit, doVars, doObs, cbVars, cbObs >>

min(a, b) == IF a < b THEN a ELSE b

(***************************************************************************)
(* New: defaults, then the limiter's fields.  refillRate is an integer     *)
(* division of durations.                                                  *)
(***************************************************************************)
New(cfg) ==
    LET m == IF cfg.MaxRequestsPerMinute = 0 THEN DefaultMaxRequests
             ELSE cfg.MaxRequestsPerMinute
        w == IF cfg.WindowDuration = 0 THEN Minute ELSE cfg.WindowDuration
    IN  [maxTokens |-> m, refillRate |-> w \div m, tokensPerReq |-> 1]

InitLimiter(cfgs, calls) ==
    /\ now = 0
    /\ rl \in { New(cfg) : cfg \in cfgs }
    /\ buckets = [k \in Keys |-> NoBucket]
    /\ heap = << >>
    /\ rlmu = [w |-> Free, r |-> {}]
    /\ allowPc = [p \in Procs |-> "idle"]
    /\ allowKey = [p \in Procs |-> "k1"]
    /\ allowB = [p \in Procs |-> NoBucket]
    /\ cleanupPc = "wait"
    /\ cleanupNow = 0
    /\ cleanupTodo = {}
    /\ cleanupCur = "k1"
    /\ tickPending = FALSE
    /\ budget = calls
    /\ granted = [k \in Keys |-> 0]
    /\ swept = FALSE
    /\ hist = << >>
    /\ credit = [credited |-> 0, capped |-> FALSE, created |-> 0, last |-> -1]

(***************************************************************************)
(* allow(key), lines 79-112, one action per lock operation or critical     *)
(* section.                                                                *)
(***************************************************************************)
\* A caller enters allow(key).
AllowCall(p, key) ==
    /\ allowPc[p] = "idle"
    /\ budget > 0
    /\ budget' = budget - 1
    /\ allowPc' = [allowPc EXCEPT ![p] = "rlock"]
    /\ allowKey' = [allowKey EXCEPT ![p] = key]
    /\ allowB' = [allowB EXCEPT ![p] = NoBucket]
    /\ UNCHANGED << now, rl, buckets, heap, rlmu, cleanupPc, cleanupNow,
                    cleanupTodo, cleanupCur, tickPending >>

\* rl.mu.RLock()
AllowRLock(p) ==
    /\ allowPc[p] = "rlock"
    /\ rlmu.w = Free
    /\ rlmu' = [rlmu EXCEPT !.r = @ \cup {p}]
    /\ allowPc' = [allowPc EXCEPT ![p] = "lookup"]
    /\ UNCHANGED << now, rl, buckets, heap, allowKey, allowB,
                    cleanupPc, cleanupNow, cleanupTodo, cleanupCur,
                    tickPending, budget >>

\* b, exists := rl.buckets[key]; rl.mu.RUnlock(); if !exists ...
AllowLookup(p) ==
    /\ allowPc[p] = "lookup"
    /\ allowB' = [allowB EXCEPT ![p] = buckets[allowKey[p]]]
    /\ rlmu' = [rlmu EXCEPT !.r = @ \ {p}]
    /\ allowPc' = [allowPc EXCEPT
                     ![p] = IF buckets[allowKey[p]] # NoBucket THEN "block"
                            ELSE "wlock"]
    /\ UNCHANGED << now, rl, buckets, heap, allowKey, cleanupPc,
                    cleanupNow, cleanupTodo, cleanupCur, tickPending, budget >>

\* rl.mu.Lock() of the !exists branch
AllowLock(p) ==
    /\ allowPc[p] = "wlock"
    /\ rlmu.w = Free
    /\ rlmu.r = {}
    /\ rlmu' = [rlmu EXCEPT !.w = p]
    /\ allowPc' = [allowPc EXCEPT ![p] = "create"]
    /\ UNCHANGED << now, rl, buckets, heap, allowKey, allowB,
                    cleanupPc, cleanupNow, cleanupTodo, cleanupCur,
                    tickPending, budget >>

\* The bucket the !exists branch allocates.
NewBucket == [tokens |-> rl.maxTokens, lastRefill |-> now, mu |-> Free]

\* b = &bucket{...}; rl.buckets[key] = b; rl.mu.Unlock()
AllowCreate(p) ==
    /\ allowPc[p] = "create"
    /\ heap' = Append(heap, NewBucket)
    /\ buckets' = [buckets EXCEPT ![allowKey[p]] = Len(heap) + 1]
    /\ allowB' = [allowB EXCEPT ![p] = Len(heap) + 1]
    /\ rlmu' = [rlmu EXCEPT !.w = Free]
    /\ allowPc' = [allowPc EXCEPT ![p] = "block"]
    /\ UNCHANGED << now, rl, allowKey, cleanupPc, cleanupNow,
                    cleanupTodo, cleanupCur, tickPending, budget >>

\* b.mu.Lock()
AllowBLock(p) ==
    /\ allowPc[p] = "block"
    /\ heap[allowB[p]].mu = Free
    /\ heap' = [heap EXCEPT ![allowB[p]].mu = p]
    /\ allowPc' = [allowPc EXCEPT ![p] = "body"]
    /\ UNCHANGED << now, rl, buckets, rlmu, allowKey, allowB,
                    cleanupPc, cleanupNow, cleanupTodo, cleanupCur,
                    tickPending, budget >>

\* tokensToAdd := int(elapsed / rl.refillRate)
TokensToAdd(b, t) == (t - b.lastRefill) \div rl.refillRate

\* Refill without the cap of line 102.
RefillUncapped(b, t) ==
    IF TokensToAdd(b, t) > 0
    THEN [b EXCEPT !.tokens = b.tokens + TokensToAdd(b, t), !.lastRefill = t]
    ELSE b

\* A refill step that stamps the bucket on every call.
RefillAlwaysStamps(b, t) ==
    IF TokensToAdd(b, t) > 0
    THEN [b EXCEPT !.tokens = min(rl.maxTokens, b.tokens + TokensToAdd(b, t)),
                   !.lastRefill = t]
    ELSE [b EXCEPT !.lastRefill = t]

\* Lines 101-104: the bucket after the refill step at time t.
Refill(b, t) ==
    IF TokensToAdd(b, t) > 0
    THEN [b EXCEPT !.tokens = min(rl.maxTokens, b.tokens + TokensToAdd(b, t)),
                   !.lastRefill = t]
    ELSE b

\* Lines 106-111: whether the call is admitted, and the bucket afterwards.
Admits(b) == b.tokens >= rl.tokensPerReq

Consume(b) ==
    IF Admits(b) THEN [b EXCEPT !.tokens = @ - rl.tokensPerReq] ELSE b

\* The value allow returns to caller p, who holds b.mu at line 97.
AllowResult(p) == Admits(Refill(heap[allowB[p]], now))

\* Lines 97-111 and the deferred b.mu.Unlock(); the locals go out of scope.
AllowBody(p) ==
    /\ allowPc[p] = "body"
    /\ heap' = [heap EXCEPT ![allowB[p]] =
                  [Consume(Refill(heap[allowB[p]], now)) EXCEPT !.mu = Free]]
    /\ allowPc' = [allowPc EXCEPT ![p] = "idle"]
    /\ allowB' = [allowB EXCEPT ![p] = NoBucket]
    /\ allowKey' = [allowKey EXCEPT ![p] = "k1"]
    /\ UNCHANGED << now, rl, buckets, rlmu, cleanupPc, cleanupNow,
                    cleanupTodo, cleanupCur, tickPending, budget >>

(***************************************************************************)
(* cleanup(), lines 114-127.                                               *)
(***************************************************************************)
\* for range rl.cleanupTicker.C: a tick is received.
CleanupTick ==
    /\ cleanupPc = "wait"
    /\ tickPending
    /\ tickPending' = FALSE
    /\ cleanupPc' = "lock"
    /\ UNCHANGED << now, rl, buckets, heap, rlmu, allowPc, allowKey, allowB,
                    cleanupNow, cleanupTodo, cleanupCur, budget >>

\* rl.mu.Lock(); now := time.Now(); the range loop starts.
CleanupLock ==
    /\ cleanupPc = "lock"
    /\ rlmu.w = Free
    /\ rlmu.r = {}
    /\ rlmu' = [rlmu EXCEPT !.w = Sweeper]
    /\ cleanupNow' = now
    /\ cleanupTodo' = { k \in Keys : buckets[k] # NoBucket }
    /\ cleanupPc' = "range"
    /\ UNCHANGED << now, rl, buckets, heap, allowPc, allowKey, allowB,
                    cleanupCur, tickPending, budget >>

\* The loop takes a key (in any order) and b.mu.Lock() succeeds.
CleanupBLock(k) ==
    /\ cleanupPc = "range"
    /\ k \in cleanupTodo
    /\ heap[buckets[k]].mu = Free
    /\ heap' = [heap EXCEPT ![buckets[k]].mu = Sweeper]
    /\ cleanupCur' = k
    /\ cleanupPc' = "check"
    /\ UNCHANGED << now, rl, buckets, rlmu, allowPc, allowKey, allowB,
                    cleanupNow, cleanupTodo, tickPending, budget >>

\* Line 120: the bucket is deleted when its lastRefill is too old.
Idle(b, t) == t - b.lastRefill > IdleThreshold

\* A cleanup that leaves the bucket locked after it looked at it.
CleanupCheckKeepsLock ==
    /\ cleanupPc = "check"
    /\ buckets' = IF Idle(heap[buckets[cleanupCur]], cleanupNow)
                  THEN [buckets EXCEPT ![cleanupCur] = NoBucket]
                  ELSE buckets
    /\ cleanupTodo' = cleanupTodo \ {cleanupCur}
    /\ cleanupCur' = "k1"
    /\ cleanupPc' = "range"
    /\ UNCHANGED << now, rl, heap, rlmu, allowPc, allowKey, allowB, cleanupNow,
                    tickPending, budget >>

\* if idle { delete(rl.buckets, key) }; b.mu.Unlock()
CleanupCheck ==
    /\ cleanupPc = "check"
    /\ LET i == buckets[cleanupCur]
       IN  /\ buckets' = IF Idle(heap[i], cleanupNow)
                         THEN [buckets EXCEPT ![cleanupCur] = NoBucket]
                         ELSE buckets
           /\ heap' = [heap EXCEPT ![i].mu = Free]
    /\ cleanupTodo' = cleanupTodo \ {cleanupCur}
    /\ cleanupCur' = "k1"
    /\ cleanupPc' = "range"
    /\ UNCHANGED << now, rl, rlmu, allowPc, allowKey, allowB, cleanupNow,
                    tickPending, budget >>

\* The loop is over: rl.mu.Unlock().
CleanupUnlock ==
    /\ cleanupPc = "range"
    /\ cleanupTodo = {}
    /\ rlmu' = [rlmu EXCEPT !.w = Free]
    /\ cleanupNow' = 0
    /\ cleanupPc' = "wait"
    /\ UNCHANGED << now, rl, buckets, heap, allowPc, allowKey, allowB,
                    cleanupTodo, cleanupCur, tickPending, budget >>

\* Whether the ticker fires in the time interval (t, u].
TickerFires(t, u) == \E m \in (t + 1)..u : m % CleanupInterval = 0

\* Time passes; the ticker's channel holds at most one tick.
TickRL ==
    /\ now + TimeStep <= MaxTime
    /\ now' = now + TimeStep
    /\ tickPending' = (tickPending \/ TickerFires(now, now + TimeStep))
    /\ UNCHANGED << rl, buckets, heap, rlmu, allowPc, allowKey, allowB,
                    cleanupPc, cleanupNow, cleanupTodo,
                    cleanupCur, budget >>

(***************************************************************************)
(* Package retry.  Durations are integers (milliseconds).  The float64     *)
(* fields of Config are rationals: Multiplier is held in halves            *)
(* (MultiplierX2 = 2 * Multiplier), JitterFraction in percent.  An error   *)
(* value is a record: inv, the invocation that produced it, and chain,     *)
(* the sentinels errors.Is finds by unwrapping it.                         *)
(***************************************************************************)
DefaultMaxAttempts == 3
DefaultInitialDelay == 100
DefaultMaxDelay == 10000
DefaultMultiplierX2 == 4

\* A sentinel error: a chain of one, produced by no invocation.
Sentinel(name) == [inv |-> 0, chain |-> << name >>]

NoErr == [inv |-> 0, chain |-> << >>]
CtxErrs == { Sentinel("context.Canceled"), Sentinel("context.DeadlineExceeded") }

\* What an invocation of operation may return besides nil.
ErrChains == { << "ErrTimeout" >>, << "ErrInvalid" >>, << "ErrWrap", "ErrTimeout" >> }

\* The Config values handed to Do.
DoConfigs ==
    [ MaxAttempts : -1..MaxAttemptsIn,
      InitialDelay : {0, MaxDelayIn - 1, MaxDelayIn + 1},
      MaxDelay : {0, MaxDelayIn},
      MultiplierX2 : {0, 1, 4},
      JitterPct : {0, 50, 300},
      RetryableErrors : {<< >>, << "ErrTimeout" >>} ]

\* Lines 174-185: the zero fields of cfg are replaced by the defaults.
Defaulted(cfg) ==
    [cfg EXCEPT
       !.MaxAttempts = IF @ = 0 THEN DefaultMaxAttempts ELSE @,
       !.InitialDelay = IF @ = 0 THEN DefaultInitialDelay ELSE @,
       !.MaxDelay = IF @ = 0 THEN DefaultMaxDelay ELSE @,
       !.MultiplierX2 = IF @ = 0 THEN DefaultMultiplierX2 ELSE @]

\* errors.Is(err, target): target is in err's chain.
ErrorsIs(err, target) == \E i \in 1..Len(err.chain) : err.chain[i] = target

\* isRetryable that ignores the allow-list.
isRetryableAlways(err, retryableErrors) == TRUE

\* isRetryable, lines 254-265.
isRetryable(err, retryableErrors) ==
    IF Len(retryableErrors) = 0 THEN TRUE
    ELSE \E i \in 1..Len(retryableErrors) : ErrorsIs(err, retryableErrors[i])

\* time.Duration(x) of a float64 x = n / d: truncation toward zero.
Trunc(n, d) == IF n >= 0 THEN n \div d ELSE -((-n) \div d)

\* addJitter, lines 267-277, with the draws rand.Float64() = u / RandDen and
\* rand.Intn(2) = sign.
addJitter(duration, jitterPct, u, sign) ==
    IF jitterPct <= 0 THEN duration
    ELSE LET jitter == Trunc(u * duration * jitterPct, RandDen * 100)
         IN  IF sign = 0 THEN duration - jitter ELSE duration + jitter

\* Line 238: the next delay.
NextDelay(d, cfg) ==
    LET grown == Trunc(d * cfg.MultiplierX2, 2)
    IN  IF cfg.MaxDelay < grown THEN cfg.MaxDelay ELSE grown

NoTimer == [d |-> 0, fired |-> FALSE]

InitDo(cfgs, ctxs) ==
    /\ doCfg \in cfgs
    /\ ctx \in ctxs
    /\ doPc = "enter"
    /\ attempt = 0
    /\ delay = 0
    /\ lastErr = NoErr
    /\ doRet = NoErr
    /\ timer = NoTimer
    /\ opLog = << >>
    /\ ctxAtCall = ctx
    /\ cancelPc = "none"
    /\ callsAtCancel = 0

\* Do returns v.
DoReturn(v) ==
    /\ doRet' = v
    /\ doPc' = "done"

\* Lines 174-188 and attempt := 1.
DoEnter ==
    /\ doPc = "enter"
    /\ doCfg' = Defaulted(doCfg)
    /\ delay' = Defaulted(doCfg).InitialDelay
    /\ lastErr' = NoErr
    /\ attempt' = 1
    /\ doPc' = "top"
    /\ UNCHANGED << ctx, doRet, timer >>

\* The loop without the check of ctx.Done() at lines 191-195.
DoTopNoCtxCheck ==
    /\ doPc = "top"
    /\ IF attempt <= doCfg.MaxAttempts
       THEN doPc' = "invoke" /\ UNCHANGED doRet
       ELSE DoReturn(lastErr)
    /\ UNCHANGED << doCfg, ctx, attempt, delay, lastErr, timer >>

\* The loop with attempt < cfg.MaxAttempts as its condition.
DoTopOneShort ==
    /\ doPc = "top"
    /\ IF attempt < doCfg.MaxAttempts
       THEN IF ctx # NoErr
            THEN DoReturn(ctx)
            ELSE doPc' = "invoke" /\ UNCHANGED doRet
       ELSE DoReturn(lastErr)
    /\ UNCHANGED << doCfg, ctx, attempt, delay, lastErr, timer >>

\* Lines 190-195: the loop condition, then the non-blocking check of ctx.Done().
DoTop ==
    /\ doPc = "top"
    /\ IF attempt <= doCfg.MaxAttempts
       THEN IF ctx # NoErr
            THEN DoReturn(ctx)
            ELSE doPc' = "invoke" /\ UNCHANGED doRet
       ELSE DoReturn(lastErr)
    /\ UNCHANGED << doCfg, ctx, attempt, delay, lastErr, timer >>

\* Lines 197-235 with operation() returning err: success, a non-retryable
\* error or the last attempt end Do; otherwise the timer of line 235 is
\* started with the jittered delay.
DoInvoke(err, u, sign) ==
    /\ doPc = "invoke"
    /\ IF err = NoErr
       THEN DoReturn(NoErr) /\ UNCHANGED << lastErr, timer >>
       ELSE /\ lastErr' = err
            /\ IF ~isRetryable(err, doCfg.RetryableErrors)
               THEN DoReturn(err) /\ UNCHANGED timer
               ELSE IF attempt = doCfg.MaxAttempts
                    THEN DoReturn(err) /\ UNCHANGED timer
                    ELSE /\ timer' = [d |-> addJitter(delay, doCfg.JitterPct, u, sign),
                                      fired |-> addJitter(delay, doCfg.JitterPct, u, sign) <= 0]
                         /\ doPc' = "select"
                         /\ UNCHANGED doRet
    /\ UNCHANGED << doCfg, ctx, attempt, delay >>

\* The results operation() may produce at its next invocation.
OpResults ==
    {NoErr} \cup { [inv |-> Len(opLog) + 1, chain |-> c] : c \in ErrChains }

\* Line 233: case <-ctx.Done().
DoSelectCtx ==
    /\ doPc = "select"
    /\ ctx # NoErr
    /\ DoReturn(ctx)
    /\ timer' = NoTimer
    /\ UNCHANGED << doCfg, ctx, attempt, delay, lastErr >>

\* Line 235: case <-time.After(...), then line 238 and attempt++.
DoSelectTimer ==
    /\ doPc = "select"
    /\ timer.fired
    /\ delay' = NextDelay(delay, doCfg)
    /\ attempt' = attempt + 1
    /\ timer' = NoTimer
    /\ doPc' = "top"
    /\ UNCHANGED << doCfg, ctx, lastErr, doRet >>

\* The timer's duration has passed.
TimerFire ==
    /\ doPc = "select"
    /\ ~timer.fired
    /\ timer' = [timer EXCEPT !.fired = TRUE]
    /\ UNCHANGED << doCfg, ctx, doPc, attempt, delay, lastErr, doRet >>

\* The context is cancelled or its deadline passes while Do runs.
Cancel(e) ==
    /\ ctx = NoErr
    /\ doPc # "done"
    /\ ctx' = e
    /\ UNCHANGED << doCfg, doPc, attempt, delay, lastErr, doRet, timer >>

(***************************************************************************)
(* Package circuitbreaker.  The clock starts at 1; 0 is the zero           *)
(* time.Time, which is before every reading of the clock.                  *)
(***************************************************************************)
StateClosed == "closed"
StateHalfOpen == "half-open"
StateOpen == "open"

ErrCircuitOpen == "ErrCircuitOpen"
ErrTooManyRequests == "ErrTooManyRequests"

ZeroTime == 0
DefaultMaxHalfOpenRequests == 1
DefaultTimeout == 60
DefaultFailureThreshold == 5
DefaultSuccessThreshold == 2

Callers == 1..NumCallers

\* The Config values handed to NewCircuitBreaker (durations in clock units),
\* with a callback; the breaker of SpecComp has none.
CBConfigs ==
    [ MaxRequests : {0, 2},
      Interval : {0, 1},
      Timeout : {0, 1},
      FailureThreshold : {1, 2},
      SuccessThreshold : {0, 1},
      OnStateChange : {TRUE} ]

\* counts{}
ZeroCounts ==
    [Requests |-> 0, TotalSuccesses |-> 0, TotalFailures |-> 0,
     ConsecutiveSuccesses |-> 0, ConsecutiveFailures |-> 0]

\* A toNewGeneration that keeps the counters of the generation it leaves.
toNewGenerationKeepCounts(b, t) ==
    [b EXCEPT
       !.generation = @ + 1,
       !.expiry = CASE b.state = StateClosed ->
                         IF cbCfg.interval = 0 THEN ZeroTime ELSE t + cbCfg.interval
                    [] b.state = StateOpen -> t + cbCfg.timeout
                    [] OTHER -> ZeroTime]

\* A toNewGeneration that leaves the expiry of the generation it ends.
toNewGenerationStaleExpiry(b, t) ==
    [b EXCEPT !.generation = @ + 1, !.counts = ZeroCounts]

\* toNewGeneration, lines 218-235.
toNewGeneration(b, t) ==
    [b EXCEPT
       !.generation = @ + 1,
       !.counts = ZeroCounts,
       !.expiry = CASE b.state = StateClosed ->
                         IF cbCfg.interval = 0 THEN ZeroTime ELSE t + cbCfg.interval
                    [] b.state = StateOpen -> t + cbCfg.timeout
                    [] OTHER -> ZeroTime]

\* A setState that never invokes the callback.
setStateNoCallback(b, state, t) ==
    IF b.state = state THEN b
    ELSE toNewGeneration([b EXCEPT !.state = state], t)

\* setState, lines 194-216.  b.changes is the list of the invocations of
\* cb.onStateChange so far: from, to, and whether cb.mu was held.  (The log
\* line of lines 208-215 leaves the breaker alone.)
setState(b, state, t) ==
    IF b.state = state THEN b
    ELSE LET n == toNewGeneration([b EXCEPT !.state = state], t)
         IN  IF cbCfg.onStateChange
             THEN [n EXCEPT !.changes = Append(@, [from |-> b.state, to |-> state,
                                                   locked |-> cbmu # Free])]
             ELSE n

\* A currentState that never ends a Closed generation.
currentStateNoClosedReset(b, t) ==
    CASE b.state = StateOpen /\ b.expiry < t -> setState(b, StateHalfOpen, t)
      [] OTHER -> b

\* currentState, lines 180-192: the breaker after the lazy transitions.
currentState(b, t) ==
    CASE b.state = StateClosed /\ b.expiry # ZeroTime /\ b.expiry < t ->
             toNewGeneration(b, t)
      [] b.state = StateOpen /\ b.expiry < t -> setState(b, StateHalfOpen, t)
      [] OTHER -> b

\* onSuccess, lines 158-166.
onSuccess(b, state, t) ==
    LET c == [b EXCEPT !.counts.TotalSuccesses = @ + 1,
                       !.counts.ConsecutiveSuccesses = @ + 1,
                       !.counts.ConsecutiveFailures = 0]
    IN  IF state = StateHalfOpen
           /\ c.counts.ConsecutiveSuccesses >= cbCfg.successThreshold
        THEN setState(c, StateClosed, t)
        ELSE c

\* An onFailure that opens one failure late.
onFailureLate(b, state, t) ==
    LET c == [b EXCEPT !.counts.TotalFailures = @ + 1,
                       !.counts.ConsecutiveFailures = @ + 1,
                       !.counts.ConsecutiveSuccesses = 0]
    IN  IF state = StateClosed
           /\ c.counts.ConsecutiveFailures > cbCfg.failureThreshold
        THEN setState(c, StateOpen, t)
        ELSE IF state = StateHalfOpen THEN setState(c, StateOpen, t)
        ELSE c

\* An onFailure that applies failureThreshold in HalfOpen too.
onFailureThresholdInHalfOpen(b, state, t) ==
    LET c == [b EXCEPT !.counts.TotalFailures = @ + 1,
                       !.counts.ConsecutiveFailures = @ + 1,
                       !.counts.ConsecutiveSuccesses = 0]
    IN  IF c.counts.ConsecutiveFailures >= cbCfg.failureThreshold
        THEN setState(c, StateOpen, t)
        ELSE c

\* onFailure, lines 168-178.
onFailure(b, state, t) ==
    LET c == [b EXCEPT !.counts.TotalFailures = @ + 1,
                       !.counts.ConsecutiveFailures = @ + 1,
                       !.counts.ConsecutiveSuccesses = 0]
    IN  IF state = StateClosed
           /\ c.counts.ConsecutiveFailures >= cbCfg.failureThreshold
        THEN setState(c, StateOpen, t)
        ELSE IF state = StateHalfOpen THEN setState(c, StateOpen, t)
        ELSE c

\* A beforeRequest that admits every call in HalfOpen.
beforeErrorNoLimit(b, t) ==
    LET r == currentState(b, t)
    IN  IF r.state = StateOpen THEN ErrCircuitOpen ELSE "nil"

\* beforeRequest, lines 128-138: the error returned ("nil": admitted).
beforeError(b, t) ==
    LET r == currentState(b, t)
    IN  IF r.state = StateOpen THEN ErrCircuitOpen
        ELSE IF r.state = StateHalfOpen /\ r.counts.Requests >= cbCfg.maxRequests
             THEN ErrTooManyRequests
        ELSE "nil"

\* A beforeRequest that counts the calls it rejects as requests.
beforeRequestCountsRejected(b, t) ==
    LET r == currentState(b, t)
    IN  [r EXCEPT !.counts.Requests = @ + 1]

\* beforeRequest, lines 128-138: the breaker afterwards.
beforeRequest(b, t) ==
    LET r == currentState(b, t)
    IN  IF beforeError(b, t) = "nil"
        THEN [r EXCEPT !.counts.Requests = @ + 1]
        ELSE r

\* An afterRequest without the generation check of lines 147-149.
afterRequestNoGenCheck(b, before, success, t) ==
    LET r == currentState(b, t)
    IN  IF success THEN onSuccess(r, r.state, t)
        ELSE onFailure(r, r.state, t)

\* afterRequest, lines 145-155: the breaker afterwards.
afterRequest(b, before, success, t) ==
    LET r == currentState(b, t)
    IN  IF r.generation # before THEN r
        ELSE IF success THEN onSuccess(r, r.state, t)
        ELSE onFailure(r, r.state, t)

\* NewCircuitBreaker, lines 73-104, at clock reading t.
NewCircuitBreakerCfg(cfg) ==
    [maxRequests |-> IF cfg.MaxRequests = 0 THEN DefaultMaxHalfOpenRequests ELSE cfg.MaxRequests,
     interval |-> cfg.Interval,
     timeout |-> IF cfg.Timeout = 0 THEN DefaultTimeout ELSE cfg.Timeout,
     failureThreshold |-> IF cfg.FailureThreshold = 0 THEN DefaultFailureThreshold
                          ELSE cfg.FailureThreshold,
     successThreshold |-> IF cfg.SuccessThreshold = 0 THEN DefaultSuccessThreshold
                          ELSE cfg.SuccessThreshold,
     onStateChange |-> cfg.OnStateChange]

InitBreaker(cfgs, calls) ==
    /\ cbNow = 1
    /\ cbCfg \in { NewCircuitBreakerCfg(cfg) : cfg \in cfgs }
    /\ cb = toNewGeneration([state |-> StateClosed, generation |-> 0,
                             counts |-> ZeroCounts, expiry |-> ZeroTime,
                             changes |-> << >>], cbNow)
    /\ cbmu = Free
    /\ execPc = [p \in Callers |-> "idle"]
    /\ execGen = [p \in Callers |-> 0]
    /\ execOut = [p \in Callers |-> "ok"]
    /\ execBudget = calls
    /\ execRet = "nil"
    /\ okDone = 0
    /\ failDone = 0

\* A caller enters Execute.
ExecCall(p) ==
    /\ execPc[p] = "idle"
    /\ execBudget > 0
    /\ execBudget' = execBudget - 1
    /\ execPc' = [execPc EXCEPT ![p] = "beforeLock"]
    /\ UNCHANGED << cbNow, cbCfg, cb, cbmu, execGen, execOut >>

\* cb.mu.Lock() of beforeRequest and of afterRequest.
ExecLock(p) ==
    /\ execPc[p] \in {"beforeLock", "afterLock"}
    /\ cbmu = Free
    /\ cbmu' = p
    /\ execPc' = [execPc EXCEPT ![p] = IF @ = "beforeLock" THEN "before" ELSE "after"]
    /\ UNCHANGED << cbNow, cbCfg, cb, execGen, execOut, execBudget >>

\* beforeRequest under the lock, the deferred Unlock, and lines 107-110:
\* Execute returns the error or goes on to call fn.
ExecBefore(p) ==
    /\ execPc[p] = "before"
    /\ cb' = beforeRequest(cb, cbNow)
    /\ cbmu' = Free
    /\ IF beforeError(cb, cbNow) = "nil"
       THEN /\ execPc' = [execPc EXCEPT ![p] = "fn"]
            /\ execGen' = [execGen EXCEPT ![p] = currentState(cb, cbNow).generation]
       ELSE /\ execPc' = [execPc EXCEPT ![p] = "idle"]
            /\ UNCHANGED execGen
    /\ UNCHANGED << cbNow, cbCfg, execOut, execBudget >>

\* Line 119: fn runs outside the lock and returns nil, returns an error or
\* panics.
ExecFn(p, out) ==
    /\ execPc[p] = "fn"
    /\ execOut' = [execOut EXCEPT ![p] = out]
    /\ execPc' = [execPc EXCEPT ![p] = "afterLock"]
    /\ UNCHANGED << cbNow, cbCfg, cb, cbmu, execGen, execBudget >>

\* An Execute without the recover of lines 112-117: a panic of fn goes on to
\* the caller with nothing recorded.
ExecAfterNoRecover(p) ==
    /\ execPc[p] = "after"
    /\ cb' = IF execOut[p] = "panic" THEN cb
             ELSE afterRequest(cb, execGen[p], execOut[p] = "ok", cbNow)
    /\ cbmu' = Free
    /\ execPc' = [execPc EXCEPT ![p] = "idle"]
    /\ execGen' = [execGen EXCEPT ![p] = 0]
    /\ execOut' = [execOut EXCEPT ![p] = "ok"]
    /\ UNCHANGED << cbNow, cbCfg, execBudget >>

\* afterRequest under the lock (line 120, or line 114 after a panic), the
\* deferred Unlock, and Execute's return (or the re-raised panic).
ExecAfter(p) ==
    /\ execPc[p] = "after"
    /\ cb' = afterRequest(cb, execGen[p], execOut[p] = "ok", cbNow)
    /\ cbmu' = Free
    /\ execPc' = [execPc EXCEPT ![p] = "idle"]
    /\ execGen' = [execGen EXCEPT ![p] = 0]
    /\ execOut' = [execOut EXCEPT ![p] = "ok"]
    /\ UNCHANGED << cbNow, cbCfg, execBudget >>

\* Time passes.
TickCB ==
    /\ cbNow < MaxNow
    /\ cbNow' = cbNow + 1
    /\ UNCHANGED << cbCfg, cb, cbmu, execPc, execGen, execOut, execBudget >>

(***************************************************************************)
(* Observers.  They read the program's variables and never steer them.     *)
(***************************************************************************)
\* A call returns: count it when it was admitted.
ObserveReturn(p) ==
    granted' = IF AllowResult(p)
               THEN [granted EXCEPT ![allowKey[p]] = @ + 1]
               ELSE granted

\* cleanup visits a bucket: note a deletion.
ObserveSweep == swept' = (swept \/ Idle(heap[buckets[cleanupCur]], cleanupNow))

\* The clock moves: a new zero-length window starts.
ObserveTick == granted' = [k \in Keys |-> 0] /\ swept' = FALSE

\* The callers of Do, seen from outside.
ObserveInvoke(err) == opLog' = Append(opLog, err)

ObserveCancel == cancelPc' = doPc /\ callsAtCancel' = Len(opLog)

\* A step of one component leaves the others alone.
OtherThanBucket == UNCHANGED << doVars, doObs, cbVars, cbObs >>

OtherThanLimiter == UNCHANGED << credit, doVars, doObs, cbVars, cbObs >>

OtherThanRetry == UNCHANGED << rlVars, rlObs, credit, cbVars, cbObs >>

OtherThanBreaker == UNCHANGED << rlVars, rlObs, credit, doVars, doObs >>

\* Execute returns without calling fn.
ObserveReject(p) ==
    /\ execRet' = IF beforeError(cb, cbNow) = "nil" THEN execRet ELSE beforeError(cb, cbNow)
    /\ UNCHANGED << okDone, failDone >>

\* Execute returns what fn returned, or the panic goes on.
ObserveDone(p) ==
    /\ execRet' = IF execOut[p] = "ok" THEN "nil" ELSE execOut[p]
    /\ okDone' = IF execOut[p] = "ok" THEN okDone + 1 ELSE okDone
    /\ failDone' = IF execOut[p] = "ok" THEN failDone ELSE failDone + 1

\* The component is not exercised.
BreakerOff ==
    InitBreaker({[MaxRequests |-> 1, Interval |-> 0, Timeout |-> 1,
                  FailureThreshold |-> 1, SuccessThreshold |-> 1,
                  OnStateChange |-> FALSE]}, 0)

RetryOff == InitDo({[MaxAttempts |-> 1, InitialDelay |-> 1, MaxDelay |-> 1,
                     MultiplierX2 |-> 2, JitterPct |-> 0,
                     RetryableErrors |-> << >>]}, {NoErr})

InitRL == InitLimiter(RLConfigs, MaxCalls) /\ RetryOff /\ BreakerOff

NextRL ==
    \/ /\ \E p \in Procs, k \in Keys : AllowCall(p, k) /\ UNCHANGED rlObs
       /\ OtherThanLimiter
    \/ /\ \E p \in Procs : AllowRLock(p) /\ UNCHANGED rlObs
       /\ OtherThanLimiter
    \/ /\ \E p \in Procs : AllowLookup(p) /\ UNCHANGED rlObs
       /\ OtherThanLimiter
    \/ /\ \E p \in Procs : AllowLock(p) /\ UNCHANGED rlObs
       /\ OtherThanLimiter
    \/ /\ \E p \in Procs : AllowCreate(p) /\ UNCHANGED rlObs
       /\ OtherThanLimiter
    \/ /\ \E p \in Procs : AllowBLock(p) /\ UNCHANGED rlObs
       /\ OtherThanLimiter
    \/ /\ \E p \in Procs : AllowBody(p) /\ ObserveReturn(p) /\ UNCHANGED << swept, hist >>
       /\ OtherThanLimiter
    \/ /\ CleanupTick /\ UNCHANGED rlObs
       /\ OtherThanLimiter
    \/ /\ CleanupLock /\ UNCHANGED rlObs
       /\ OtherThanLimiter
    \/ /\ \E k \in Keys : CleanupBLock(k) /\ UNCHANGED rlObs
       /\ OtherThanLimiter
    \/ /\ CleanupCheck /\ ObserveSweep /\ UNCHANGED << granted, hist >>
       /\ OtherThanLimiter
    \/ /\ CleanupUnlock /\ UNCHANGED rlObs
       /\ OtherThanLimiter
    \/ /\ TickRL /\ ObserveTick /\ UNCHANGED hist
       /\ OtherThanLimiter

SpecRL == InitRL /\ [][NextRL]_vars

(***************************************************************************)
(* C1.  With no time elapsing and no bucket swept, at most maxTokens of    *)
(* the concurrent allow(key) calls return true, for every key.             *)
(***************************************************************************)
C1_AtMostCapacity ==
    \A k \in Keys : ~swept => granted[k] <= rl.maxTokens

(***************************************************************************)
(* C3.  Every bucket ever allocated, in the map or not, holds between 0    *)
(* and maxTokens tokens.                                                   *)
(***************************************************************************)
C3_TokensInRange ==
    \A i \in 1..Len(heap) : 0 <= heap[i].tokens /\ heap[i].tokens <= rl.maxTokens

\* A bucket that left the map, was refilled up to the cap and consumed from.
C3_Witness ==
    \E i \in 1..Len(heap) :
        /\ \A k \in Keys : buckets[k] # i
        /\ heap[i].lastRefill > 0
        /\ heap[i].tokens = rl.maxTokens - 1
        /\ rl.maxTokens > 1

(***************************************************************************)
(* SpecRLSeq: one client calling allow again and again, beside the         *)
(* cleanup goroutine that New starts.  hist records each call: the clock   *)
(* when it was made (s), when it returned (t, -1 while it runs) and its    *)
(* result (ok).                                                            *)
(***************************************************************************)
Client == 1

ObserveCall == hist' = Append(hist, [s |-> now, t |-> -1, ok |-> FALSE])

ObserveResult ==
    hist' = [hist EXCEPT ![Len(hist)] =
               [s |-> @.s, t |-> now, ok |-> AllowResult(Client)]]

InitRLSeq == InitLimiter(RLConfigs, SeqCalls) /\ RetryOff /\ BreakerOff

NextRLSeq ==
    \/ /\ \E k \in Keys : AllowCall(Client, k) /\ ObserveCall /\ UNCHANGED << granted, swept >>
       /\ OtherThanLimiter
    \/ /\ AllowRLock(Client) /\ UNCHANGED rlObs
       /\ OtherThanLimiter
    \/ /\ AllowLookup(Client) /\ UNCHANGED rlObs
       /\ OtherThanLimiter
    \/ /\ AllowLock(Client) /\ UNCHANGED rlObs
       /\ OtherThanLimiter
    \/ /\ AllowCreate(Client) /\ UNCHANGED rlObs
       /\ OtherThanLimiter
    \/ /\ AllowBLock(Client) /\ UNCHANGED rlObs
       /\ OtherThanLimiter
    \/ /\ AllowBody(Client) /\ ObserveResult /\ UNCHANGED << granted, swept >>
       /\ OtherThanLimiter
    \/ /\ CleanupTick /\ UNCHANGED rlObs
       /\ OtherThanLimiter
    \/ /\ CleanupLock /\ UNCHANGED rlObs
       /\ OtherThanLimiter
    \/ /\ \E k \in Keys : CleanupBLock(k) /\ UNCHANGED rlObs
       /\ OtherThanLimiter
    \/ /\ CleanupCheck /\ UNCHANGED rlObs
       /\ OtherThanLimiter
    \/ /\ CleanupUnlock /\ UNCHANGED rlObs
       /\ OtherThanLimiter
    \/ /\ TickRL /\ UNCHANGED rlObs
       /\ OtherThanLimiter

SpecRLSeq == InitRLSeq /\ [][NextRLSeq]_vars

\* The clock reading the scenario of C2 asks of call i: the first
\* maxTokens + 1 calls when the key is first used, the later ones exactly
\* refillRate later.
ScenarioTime(i) ==
    IF i <= rl.maxTokens + 1 THEN hist[1].s ELSE hist[1].s + rl.refillRate

\* Calls 1..n were made and returned at the scenario's times.
OnScenario(n) ==
    \A i \in 1..n : hist[i].s = ScenarioTime(i) /\ hist[i].t = ScenarioTime(i)

\* What C2 says call n returns.
ScenarioResult(n) == n <= rl.maxTokens \/ n = rl.maxTokens + 2

(***************************************************************************)
(* C2.  For a fresh key: maxTokens calls at one instant return true, the   *)
(* next one false; exactly refillRate later one call returns true and the  *)
(* next one false.                                                         *)
(***************************************************************************)
C2_BurstThenOne ==
    \A n \in 1..Len(hist) :
        (n <= rl.maxTokens + 3 /\ OnScenario(n)) => hist[n].ok = ScenarioResult(n)

(***************************************************************************)
(* SpecRetry: one call of Do, with any configuration, any sequence of      *)
(* results of operation and a context that may be cancelled at any time,   *)
(* before the call included.                                               *)
(***************************************************************************)
LimiterOff == InitLimiter({[MaxRequestsPerMinute |-> 1, WindowDuration |-> 1]}, 0)

InitRetry == InitDo(DoConfigs, {NoErr} \cup CtxErrs) /\ LimiterOff /\ BreakerOff

NextRetry ==
    \/ /\ DoEnter /\ UNCHANGED doObs
       /\ OtherThanRetry
    \/ /\ DoTop /\ UNCHANGED doObs
       /\ OtherThanRetry
    \/ /\ \E err \in OpResults, u \in 0..(RandDen - 1), sign \in {0, 1} :
              DoInvoke(err, u, sign) /\ ObserveInvoke(err)
              /\ UNCHANGED << ctxAtCall, cancelPc, callsAtCancel >>
       /\ OtherThanRetry
    \/ /\ DoSelectCtx /\ UNCHANGED doObs
       /\ OtherThanRetry
    \/ /\ DoSelectTimer /\ UNCHANGED doObs
       /\ OtherThanRetry
    \/ /\ TimerFire /\ UNCHANGED doObs
       /\ OtherThanRetry
    \/ /\ \E e \in CtxErrs : Cancel(e) /\ ObserveCancel /\ UNCHANGED << opLog, ctxAtCall >>
       /\ OtherThanRetry

SpecRetry == InitRetry /\ [][NextRetry]_vars

\* err is an error that a non-empty allow-list does not match.
OffTheList(err) ==
    /\ err # NoErr
    /\ doCfg.RetryableErrors # << >>
    /\ \A i \in 1..Len(doCfg.RetryableErrors), j \in 1..Len(err.chain) :
          err.chain[j] # doCfg.RetryableErrors[i]

\* Every invocation so far failed with an error Do may retry.
AlwaysFailedRetryably ==
    \A i \in 1..Len(opLog) : opLog[i] # NoErr /\ ~OffTheList(opLog[i])

(***************************************************************************)
(* C4.  With MaxAttempts = N >= 1, an operation that always fails with a   *)
(* retryable error and a context never cancelled, Do invokes the operation *)
(* exactly N times and returns the N-th invocation's error as it is.       *)
(***************************************************************************)
C4_ExhaustsAttempts ==
    (doPc = "done" /\ doCfg.MaxAttempts >= 1 /\ ctx = NoErr /\ AlwaysFailedRetryably)
        => /\ Len(opLog) = doCfg.MaxAttempts
           /\ doRet = opLog[doCfg.MaxAttempts]

\* Three failed attempts on wrapped, allow-listed errors.
C4_Witness ==
    /\ doPc = "done" /\ ctx = NoErr /\ AlwaysFailedRetryably
    /\ doCfg.MaxAttempts = 3 /\ Len(opLog) = 3
    /\ doCfg.RetryableErrors # << >>
    /\ doRet = [inv |-> 3, chain |-> << "ErrWrap", "ErrTimeout" >>]

(***************************************************************************)
(* C5.  An attempt failing with an error that a non-empty allow-list does  *)
(* not match ends Do at once: it is the last invocation, no timer is       *)
(* started and Do returns that error.                                      *)
(***************************************************************************)
C5_FailFast ==
    \A i \in 1..Len(opLog) :
        OffTheList(opLog[i])
            => /\ i = Len(opLog)
               /\ doPc = "done"
               /\ timer = NoTimer
               /\ doRet = opLog[i]

\* The second of three attempts fails off the list.
C5_Witness ==
    /\ Len(opLog) = 2 /\ OffTheList(opLog[2])
    /\ doCfg.MaxAttempts = 3 /\ doPc = "done" /\ ctx = NoErr

(***************************************************************************)
(* C6.  Do called with a context already cancelled or expired never        *)
(* invokes the operation and returns the context's error.                  *)
(***************************************************************************)
C6_CancelledBeforeCall ==
    (ctxAtCall # NoErr /\ doPc = "done")
        => Len(opLog) = 0 /\ doRet = ctxAtCall

(***************************************************************************)
(* C7.  When the context is cancelled while Do waits between two attempts, *)
(* the operation is not invoked again, Do can return at once (the          *)
(* ctx.Done() case is ready whatever the timer does) and what it returns   *)
(* is the context's error, whether the select took the timer or the        *)
(* cancellation.                                                           *)
(***************************************************************************)
C7_CancelDuringWait ==
    cancelPc = "select"
        => /\ Len(opLog) = callsAtCancel
           /\ doPc \in {"select", "top", "done"}
           /\ doPc = "select" => ENABLED DoSelectCtx
           /\ doPc = "done" => doRet = ctx

\* The select took the timer although the context was cancelled; the check
\* at the top of the loop then ended Do.
C7_Witness ==
    /\ cancelPc = "select" /\ doPc = "done"
    /\ attempt = callsAtCancel + 1
    /\ doRet = ctx

(***************************************************************************)
(* SpecCB: concurrent callers of Execute on one breaker, with any          *)
(* configuration, any outcome of fn and time passing at any point.         *)
(***************************************************************************)
InitCB == InitBreaker(CBConfigs, MaxExec) /\ LimiterOff /\ RetryOff

NextCB ==
    \/ /\ \E p \in Callers : ExecCall(p) /\ UNCHANGED cbObs
       /\ OtherThanBreaker
    \/ /\ \E p \in Callers : ExecLock(p) /\ UNCHANGED cbObs
       /\ OtherThanBreaker
    \/ /\ \E p \in Callers : ExecBefore(p) /\ ObserveReject(p)
       /\ OtherThanBreaker
    \/ /\ \E p \in Callers, out \in {"ok", "err", "panic"} : ExecFn(p, out) /\ UNCHANGED cbObs
       /\ OtherThanBreaker
    \/ /\ \E p \in Callers : ExecAfter(p) /\ ObserveDone(p)
       /\ OtherThanBreaker
    \/ /\ TickCB /\ UNCHANGED cbObs
       /\ OtherThanBreaker

SpecCB == InitCB /\ [][NextCB]_vars

\* The step is caller p's beforeRequest.
BeforeStep(p) == execPc[p] = "before" /\ execPc'[p] # "before"

\* The step is caller p's afterRequest.
AfterStep(p) == execPc[p] = "after" /\ execPc'[p] # "after"

\* The step records the last of failureThreshold failed calls, no call
\* having succeeded, in the Closed generation the breaker was built in.
ThresholdFailure(p) ==
    /\ AfterStep(p)
    /\ okDone = 0
    /\ failDone + 1 = cbCfg.failureThreshold
    /\ failDone' = failDone + 1
    /\ cb.state = StateClosed
    /\ cb.generation = 1
    /\ ~(cb.expiry # ZeroTime /\ cb.expiry < cbNow)

\* C8: starting from Closed with zeroed counters, the failureThreshold-th
\* consecutive failing Execute call (no counter reset in between) leaves the
\* breaker Open with expiry now + timeout, and every Execute call whose
\* beforeRequest runs while the breaker is Open and now < expiry returns
\* ErrCircuitOpen without calling fn and without changing the breaker.
C8_OpensAndRejects ==
    [][\A p \in Callers :
          /\ ThresholdFailure(p) =>
                /\ cb'.state = StateOpen
                /\ cb'.expiry = cbNow + cbCfg.timeout
          /\ (BeforeStep(p) /\ cb.state = StateOpen /\ cbNow < cb.expiry) =>
                /\ execPc'[p] = "idle"
                /\ execRet' = ErrCircuitOpen
                /\ cb' = cb]_vars

\* Two failed calls opened a breaker of threshold two, and a later call was
\* rejected before the expiry.
C8_Witness ==
    /\ cbCfg.failureThreshold = 2
    /\ okDone = 0
    /\ failDone = 2
    /\ cb.state = StateOpen
    /\ cb.generation = 2
    /\ cbNow < cb.expiry
    /\ execRet = ErrCircuitOpen
    /\ execBudget = MaxExec - 3
    /\ \A p \in Callers : execPc[p] = "idle"

\* C9: when the breaker is Open and a call's beforeRequest runs at any time
\* now >= expiry (now = expiry included), the breaker moves to HalfOpen on
\* that call and the call is admitted (fn is called).
C9_HalfOpenAtExpiry ==
    [][\A p \in Callers :
          (BeforeStep(p) /\ cb.state = StateOpen /\ cbNow >= cb.expiry) =>
              /\ cb'.state = StateHalfOpen
              /\ execPc'[p] = "fn"]_vars

\* C10: in HalfOpen, when a recorded success brings the consecutive
\* successes of the current generation to successThreshold, the breaker moves
\* to Closed in a new generation whose five counters are all zero; and the
\* breaker is never HalfOpen with that many consecutive successes recorded.
C10_ClosesWithZeroCounts ==
    [][/\ cb.state = StateHalfOpen =>
             cb.counts.ConsecutiveSuccesses < cbCfg.successThreshold
       /\ \A p \in Callers :
             (/\ AfterStep(p)
              /\ execOut[p] = "ok"
              /\ execGen[p] = cb.generation
              /\ cb.state = StateHalfOpen
              /\ cb.counts.ConsecutiveSuccesses + 1 >= cbCfg.successThreshold) =>
                 /\ cb'.state = StateClosed
                 /\ cb'.generation = cb.generation + 1
                 /\ cb'.counts = ZeroCounts]_vars

\* A breaker of success threshold two that opened, went HalfOpen and was
\* closed by two probes, with nothing else recorded since.
C10_Witness ==
    /\ cbCfg.successThreshold = 2
    /\ cbCfg.interval = 0
    /\ cb.state = StateClosed
    /\ cb.generation = 4
    /\ okDone = 2
    /\ failDone = 1
    /\ \A p \in Callers : execPc[p] = "idle"

\* The step records the outcome of a call admitted in the generation the
\* breaker is in, with no reset of a Closed generation falling due.
RecordsInGeneration(p) ==
    /\ AfterStep(p)
    /\ execGen[p] = cb.generation
    /\ ~(cb.state = StateClosed /\ cb.expiry # ZeroTime /\ cb.expiry < cbNow)

\* C11: in HalfOpen, a single failure (a returned error or a panic) recorded
\* for a probe of the current generation moves the breaker to Open at once,
\* whatever failureThreshold is, in a new generation whose expiry is the time
\* of that failure plus the open timeout.
C11_ProbeFailureReopens ==
    [][\A p \in Callers :
          (RecordsInGeneration(p) /\ cb.state = StateHalfOpen /\ execOut[p] # "ok") =>
              /\ cb'.state = StateOpen
              /\ cb'.generation = cb.generation + 1
              /\ cb'.expiry = cbNow + cbCfg.timeout]_vars

\* A breaker of failure threshold two, opened by two failures, reopened by the
\* failure of its first probe.
C11_Witness ==
    /\ cbCfg.failureThreshold = 2
    /\ cbCfg.interval = 0
    /\ okDone = 0
    /\ failDone = 3
    /\ cb.state = StateOpen
    /\ cb.generation = 4
    /\ cb.expiry = cbNow + cbCfg.timeout

\* From b to c the breaker made one of the transitions that the clock alone
\* causes: the reset of a Closed generation or Open to HalfOpen, into a
\* generation with zeroed counters.
TimeOnly(b, c) ==
    /\ b.expiry # ZeroTime
    /\ b.expiry <= cbNow
    /\ c.generation = b.generation + 1
    /\ c.counts = ZeroCounts
    /\ \/ b.state = StateClosed /\ c.state = StateClosed
       \/ b.state = StateOpen /\ c.state = StateHalfOpen

\* C12: generation isolation.  When the completion of a call admitted in
\* generation G is recorded and the breaker is no longer in G (a transition
\* or a Closed counter reset came in between, or falls due at the recording),
\* the recording leaves counters, state, generation and expiry as they are,
\* but for the transition the clock alone makes due at that moment, whose
\* generation starts with zeroed counters.
C12_GenerationIsolation ==
    [][\A p \in Callers :
          (/\ AfterStep(p)
           /\ \/ execGen[p] # cb.generation
              \/ cb'.generation # cb.generation /\ cb'.state = cb.state) =>
              (cb' = cb \/ TimeOnly(cb, cb'))]_vars

\* With failure threshold one, two calls admitted in the first generation
\* failed: the first opened the breaker, the second was recorded in
\* generation two and left it untouched.
C12_Witness ==
    /\ cbCfg.failureThreshold = 1
    /\ failDone = 2
    /\ okDone = 0
    /\ execRet # ErrCircuitOpen
    /\ execBudget = MaxExec - 2
    /\ cb.state = StateOpen
    /\ cb.generation = 2
    /\ cb.counts = ZeroCounts
    /\ \A p \in Callers : execPc[p] = "idle"

\* The callers admitted in generation g whose Execute has not returned.
InFlight(g) ==
    { p \in Callers : execPc[p] \in {"fn", "afterLock", "after"} /\ execGen[p] = g }

\* C13: while the breaker is HalfOpen, the calls in flight that were admitted
\* in the current generation are never more than maxRequests, whatever the
\* interleaving of the callers, and a call whose beforeRequest finds that many
\* in flight is rejected with ErrTooManyRequests.
C13_HalfOpenLimit ==
    [][/\ cb.state = StateHalfOpen =>
             Cardinality(InFlight(cb.generation)) <= cbCfg.maxRequests
       /\ cb'.state = StateHalfOpen =>
             Cardinality(InFlight(cb.generation)') <= cbCfg.maxRequests
       /\ \A p \in Callers :
             (/\ BeforeStep(p)
              /\ cb.state = StateHalfOpen
              /\ Cardinality(InFlight(cb.generation)) >= cbCfg.maxRequests) =>
                 /\ execPc'[p] = "idle"
                 /\ execRet' = ErrTooManyRequests]_vars

\* With maxRequests one, a probe is in flight and the other caller has been
\* turned away.
C13_Witness ==
    /\ cbCfg.maxRequests = 1
    /\ cb.state = StateHalfOpen
    /\ Cardinality(InFlight(cb.generation)) = 1
    /\ execRet = ErrTooManyRequests
    /\ \E p \in Callers : execPc[p] = "idle"

\* C14: whenever Execute returns ErrCircuitOpen or ErrTooManyRequests (it
\* returns from line 109, the only place before fn is called), fn was not
\* invoked and beforeRequest, the only part of the breaker this call ran,
\* left state, generation, counters and expiry as they were; Execute returns
\* from there with no other value, and returns neither after fn.
C14_RejectionHasNoEffect ==
    [][\A p \in Callers :
          /\ (BeforeStep(p) /\ execPc'[p] # "fn") =>
                /\ execPc'[p] = "idle"
                /\ execRet' \in {ErrCircuitOpen, ErrTooManyRequests}
                /\ cb' = cb
                /\ execGen'[p] = execGen[p]
          /\ (AfterStep(p) /\ execOut[p] # "panic") =>
                execRet' \notin {ErrCircuitOpen, ErrTooManyRequests}]_vars

\* A breaker of failure threshold one, opened by one failure at a time when
\* a reset of the first generation was already due, has turned a call away.
C14_Witness ==
    /\ cbCfg.failureThreshold = 1
    /\ cbCfg.interval = 1
    /\ failDone = 1
    /\ okDone = 0
    /\ cb.state = StateOpen
    /\ cb.generation = 3
    /\ execRet = ErrCircuitOpen
    /\ execBudget = MaxExec - 2
    /\ \A p \in Callers : execPc[p] = "idle"

\* From b to c exactly one failure was recorded: the two failure counters
\* went up by one and the consecutive successes to zero, or the failure made
\* the breaker Open (in HalfOpen, or at the threshold in Closed).
OneFailure(b, c) ==
    IF \/ b.state = StateHalfOpen
       \/ b.state = StateClosed
            /\ b.counts.ConsecutiveFailures + 1 >= cbCfg.failureThreshold
    THEN /\ c.state = StateOpen
         /\ c.generation = b.generation + 1
         /\ c.counts = ZeroCounts
         /\ c.expiry = cbNow + cbCfg.timeout
    ELSE c = [b EXCEPT !.counts.TotalFailures = @ + 1,
                       !.counts.ConsecutiveFailures = @ + 1,
                       !.counts.ConsecutiveSuccesses = 0]

\* C15: when fn panics inside Execute, the breaker records exactly one
\* failure for the call, with the counter updates and transitions of a
\* returned error and subject to the same generation check, cb.mu is
\* released, and the panic goes on to the caller of Execute.
C15_PanicIsOneFailure ==
    [][\A p \in Callers :
          (AfterStep(p) /\ execOut[p] # "ok") =>
              /\ IF RecordsInGeneration(p)
                 THEN OneFailure(cb, cb')
                 ELSE cb' = cb \/ TimeOnly(cb, cb')
              /\ cbmu' = Free
              /\ execPc'[p] = "idle"
              /\ execRet' = execOut[p]]_vars

\* The first call of a breaker of failure threshold two panicked.
C15_Witness ==
    /\ cbCfg.failureThreshold = 2
    /\ execRet = "panic"
    /\ failDone = 1
    /\ okDone = 0
    /\ cb.state = StateClosed
    /\ cb.counts.TotalFailures = 1
    /\ cb.counts.ConsecutiveFailures = 1
    /\ cb.counts.Requests = 1
    /\ cbmu = Free
    /\ \A p \in Callers : execPc[p] = "idle"

(***************************************************************************)
(* SpecComp: the composition cb.Execute(ctx, func() error { return         *)
(* retry.Do(ctx, cfg, operation) }) of Client.executeWithRetry and         *)
(* Client.Complete, called by one client again and again.  fn is a run of  *)
(* Do: it starts when beforeRequest admits the call, with a context that   *)
(* may be cancelled already or at any later point, and what Do returns is  *)
(* what fn returns.                                                        *)
(***************************************************************************)
CompDoConfigs ==
    [ MaxAttempts : {-1, 1, MaxAttemptsIn},
      InitialDelay : {1},
      MaxDelay : {MaxDelayIn},
      MultiplierX2 : {4},
      JitterPct : {0},
      RetryableErrors : {<< >>, << "ErrTimeout" >>} ]

CompCBConfigs ==
    [ MaxRequests : {0},
      Interval : {0},
      Timeout : {1},
      FailureThreshold : {1, 2},
      SuccessThreshold : {0, 1},
      OnStateChange : {FALSE} ]

\* fn is called: Do starts with the context c.
DoStart(c) ==
    /\ ctx' = c
    /\ doPc' = "enter"
    /\ attempt' = 0
    /\ delay' = 0
    /\ lastErr' = NoErr
    /\ doRet' = NoErr
    /\ timer' = NoTimer
    /\ UNCHANGED doCfg

\* The observers of Do start afresh with the run.
ObserveStart(c) ==
    /\ opLog' = << >>
    /\ ctxAtCall' = c
    /\ cancelPc' = "none"
    /\ callsAtCancel' = 0

\* An outcome that is a failure as soon as one attempt failed.
CompOutcomeAnyAttempt ==
    IF \E i \in 1..Len(opLog) : opLog[i] # NoErr THEN "err" ELSE "ok"

\* Line 120 with err the value Do returned: success is err == nil.
CompOutcome == IF doRet = NoErr THEN "ok" ELSE "err"

\* Do is running as the fn of the client's Execute.
InFn == execPc[Client] = "fn" /\ doPc # "done"

InitComp ==
    /\ InitBreaker(CompCBConfigs, MaxExec)
    /\ InitDo(CompDoConfigs, {NoErr})
    /\ LimiterOff

OtherThanComp == UNCHANGED << rlVars, rlObs, credit >>

NextComp ==
    \/ /\ ExecCall(Client) /\ UNCHANGED << cbObs, doVars, doObs >>
       /\ OtherThanComp
    \/ /\ ExecLock(Client) /\ UNCHANGED << cbObs, doVars, doObs >>
       /\ OtherThanComp
    \/ /\ \E c \in {NoErr} \cup CtxErrs :
             /\ ExecBefore(Client) /\ ObserveReject(Client)
             /\ IF beforeError(cb, cbNow) = "nil"
                THEN DoStart(c) /\ ObserveStart(c)
                ELSE UNCHANGED << doVars, doObs >>
       /\ OtherThanComp
    \/ /\ InFn /\ DoEnter /\ UNCHANGED << doObs, cbVars, cbObs >>
       /\ OtherThanComp
    \/ /\ InFn /\ DoTop /\ UNCHANGED << doObs, cbVars, cbObs >>
       /\ OtherThanComp
    \/ /\ \E err \in OpResults, u \in 0..(RandDen - 1), sign \in {0, 1} :
              InFn /\ DoInvoke(err, u, sign) /\ ObserveInvoke(err)
              /\ UNCHANGED << ctxAtCall, cancelPc, callsAtCancel, cbVars, cbObs >>
       /\ OtherThanComp
    \/ /\ InFn /\ DoSelectCtx /\ UNCHANGED << doObs, cbVars, cbObs >>
       /\ OtherThanComp
    \/ /\ InFn /\ DoSelectTimer /\ UNCHANGED << doObs, cbVars, cbObs >>
       /\ OtherThanComp
    \/ /\ InFn /\ TimerFire /\ UNCHANGED << doObs, cbVars, cbObs >>
       /\ OtherThanComp
    \/ /\ \E e \in CtxErrs : InFn /\ Cancel(e) /\ ObserveCancel
                             /\ UNCHANGED << opLog, ctxAtCall, cbVars, cbObs >>
       /\ OtherThanComp
    \/ /\ execPc[Client] = "fn" /\ doPc = "done"
       /\ ExecFn(Client, CompOutcome) /\ UNCHANGED << cbObs, doVars, doObs >>
       /\ OtherThanComp
    \/ /\ ExecAfter(Client) /\ ObserveDone(Client) /\ UNCHANGED << doVars, doObs >>
       /\ OtherThanComp
    \/ /\ TickCB /\ UNCHANGED << cbObs, doVars, doObs >>
       /\ OtherThanComp

SpecComp == InitComp /\ [][NextComp]_vars

\* The outcomes recorded in the current generation.
Recorded(b) == b.counts.TotalSuccesses + b.counts.TotalFailures

\* From b to c exactly one success was recorded: the two success counters
\* went up by one and the consecutive failures to zero, or the success closed
\* a HalfOpen breaker.
OneSuccess(b, c) ==
    IF /\ b.state = StateHalfOpen
       /\ b.counts.ConsecutiveSuccesses + 1 >= cbCfg.successThreshold
    THEN /\ c.state = StateClosed
         /\ c.generation = b.generation + 1
         /\ c.counts = ZeroCounts
    ELSE c = [b EXCEPT !.counts.TotalSuccesses = @ + 1,
                       !.counts.ConsecutiveSuccesses = @ + 1,
                       !.counts.ConsecutiveFailures = 0]

\* The run of Do in the client's Execute failed on its early attempts and
\* succeeded on its last one.
SucceededAfterFailures ==
    /\ Len(opLog) >= 2
    /\ opLog[Len(opLog)] = NoErr
    /\ \A i \in 1..(Len(opLog) - 1) : opLog[i] # NoErr

\* C16: in the composition, totalSuccesses + totalFailures goes up only when
\* an Execute call completes, and then by one, however many attempts failed
\* inside the call; and a call whose operation failed on early attempts and
\* succeeded on a later one is recorded as one success, which leaves
\* consecutiveFailures at zero and totalFailures as it was.
C16_OneOutcomePerCall ==
    [][/\ Recorded(cb') <= Recorded(cb) + 1
       /\ Recorded(cb') > Recorded(cb) => AfterStep(Client)
       /\ (AfterStep(Client) /\ RecordsInGeneration(Client) /\ SucceededAfterFailures) =>
             /\ OneSuccess(cb, cb')
             /\ cb'.counts.ConsecutiveFailures = 0
             /\ execRet' = "nil"]_vars

\* After one failed call, a call failed on its first attempt and succeeded
\* on its second: one success, no consecutive failure left.
C16_Witness ==
    /\ cbCfg.failureThreshold = 2
    /\ SucceededAfterFailures
    /\ execPc[Client] = "idle"
    /\ okDone = 1
    /\ failDone = 1
    /\ cb.state = StateClosed
    /\ cb.counts.Requests = 2
    /\ cb.counts.TotalSuccesses = 1
    /\ cb.counts.TotalFailures = 1
    /\ cb.counts.ConsecutiveFailures = 0

\* The run of Do used up its attempts: MaxAttempts invocations, the last one
\* failed.
Exhausted ==
    /\ doCfg.MaxAttempts >= 1
    /\ Len(opLog) = doCfg.MaxAttempts
    /\ opLog[Len(opLog)] # NoErr

\* The run of Do ended on an error off the allow-list.
FailedNonRetryably == Len(opLog) >= 1 /\ OffTheList(opLog[Len(opLog)])

\* C17: in the composition, the breaker records a failure for an Execute
\* call only if the operation used up all its retry attempts or failed with a
\* non-retryable error, whatever the context does (cancelled before or
\* between the attempts included).
C17_OnlyLogicalFailures ==
    [][(/\ AfterStep(Client)
        /\ RecordsInGeneration(Client)
        /\ execOut[Client] # "ok") => (Exhausted \/ FailedNonRetryably)]_vars

\* C18: for every non-negative delay, every JitterFraction (values at or
\* above 1 included) and every random draw of magnitude and sign, the
\* duration that addJitter returns and that Do hands to time.After is
\* non-negative.
C18_JitterNonNegative == delay >= 0 => timer.d >= 0

\* The invocations of onStateChange made from b to c.
NewChanges(b, c) == SubSeq(c.changes, Len(b.changes) + 1, Len(c.changes))

\* C19: when an OnStateChange callback is configured, every step that changes
\* the breaker's state invokes it exactly once, with cb.mu held, from the
\* state before the change and to the state after it, and a step that leaves
\* the state as it is (a Closed counter reset changes the generation only)
\* does not invoke it.
C19_CallbackPerChange ==
    [][cbCfg.onStateChange =>
          /\ Len(cb'.changes) >= Len(cb.changes)
          /\ SubSeq(cb'.changes, 1, Len(cb.changes)) = cb.changes
          /\ NewChanges(cb, cb') =
                IF cb'.state # cb.state
                THEN << [from |-> cb.state, to |-> cb'.state, locked |-> TRUE] >>
                ELSE << >>]_vars

\* A breaker with a callback whose first generation was reset and which a
\* failure then opened: one invocation, none for the reset.
C19_Witness ==
    /\ cbCfg.onStateChange
    /\ cbCfg.interval = 1
    /\ cb.generation = 3
    /\ cb.state = StateOpen
    /\ cb.changes = << [from |-> StateClosed, to |-> StateOpen, locked |-> TRUE] >>

\* The step admits a call: beforeRequest counts it in Requests (line 137)
\* after currentState has resolved the generation.
Admission == \E p \in Callers : BeforeStep(p) /\ execPc'[p] = "fn"

\* C20: the generation never decreases, and every step that changes it
\* leaves all five counters at zero (but for the request of the call that
\* this same step admits into the new generation) and sets the expiry from
\* the new state: the time of the change plus the timeout in Open, plus the
\* interval in Closed (none when the interval is 0), none in HalfOpen.
C20_NewGeneration ==
    [][/\ cb'.generation >= cb.generation
       /\ cb'.generation # cb.generation =>
             /\ cb'.counts = [ZeroCounts EXCEPT !.Requests = IF Admission THEN 1 ELSE 0]
             /\ cb'.expiry =
                   CASE cb'.state = StateOpen -> cbNow + cbCfg.timeout
                     [] cb'.state = StateClosed ->
                           IF cbCfg.interval = 0 THEN ZeroTime ELSE cbNow + cbCfg.interval
                     [] OTHER -> ZeroTime]_vars

\* The first generation of a breaker with a reset interval has just been
\* reset at the recording of a call that outlived it.
C20_Witness ==
    /\ cbCfg.interval = 1
    /\ cb.state = StateClosed
    /\ cb.generation = 2
    /\ cb.counts = ZeroCounts
    /\ cb.expiry = cbNow + cbCfg.interval
    /\ okDone + failDone = 1
    /\ execBudget = MaxExec - 1

(***************************************************************************)
(* C21.  The lastRefill of a bucket changes only in the body of an allow   *)
(* call on that bucket that computes tokensToAdd >= 1, and it becomes the  *)
(* time of that call; a call that computes tokensToAdd = 0, and every      *)
(* other step, leaves it as it was.                                        *)
(***************************************************************************)
\* Caller p runs lines 97-111 on bucket i in this step.
BodyStep(p, i) ==
    allowPc[p] = "body" /\ allowPc'[p] = "idle" /\ allowB[p] = i

C21_LastRefillFrame ==
    [][\A i \in 1..Len(heap) :
          heap'[i].lastRefill # heap[i].lastRefill =>
             \E p \in Procs : /\ BodyStep(p, i)
                              /\ TokensToAdd(heap[i], now) >= 1
                              /\ heap'[i].lastRefill = now]_vars

\* A bucket of two tokens created at time 0 is empty after a call at time 5
\* that was admitted and added nothing: its lastRefill is still 0.
C21_Witness ==
    /\ now = TimeStep
    /\ rl.refillRate > TimeStep
    /\ rl.maxTokens = 2
    /\ Len(heap) = 1
    /\ heap[1].tokens = 0
    /\ heap[1].lastRefill = 0
    /\ granted["k1"] = 1

(***************************************************************************)
(* C22.  Closed self-reset.                                                *)
(***************************************************************************)
\* Caller p's beforeRequest or afterRequest: a call of currentState.
ResolvesState(p) == BeforeStep(p) \/ AfterStep(p)

\* The reset interval of the Closed generation has elapsed: the expiry, set
\* at its beginning to that time plus the interval, is past.
IntervalElapsed == cb.state = StateClosed /\ cbCfg.interval > 0 /\ cb.expiry < cbNow

ConsumesFrom(p, i) == BodyStep(p, i) /\ AllowResult(p)

\* C23: when one bucket only was ever created for the key (so that no other
\* caller replaced it), a call that returns true takes its token from the
\* bucket the map holds for the key, the one later calls consult: the sweep
\* has not removed it between the lookup and the consumption.
C23_ConsumesFromMappedBucket ==
    [][\A p \in Procs :
          (ConsumesFrom(p, allowB[p]) /\ Len(heap) = 1) =>
             buckets[allowKey[p]] = allowB[p]]_vars

(***************************************************************************)
(* C24.  Bucket get-or-create is atomic.                                   *)
(***************************************************************************)
\* The ticker has not fired yet: cleanup has deleted nothing.
BeforeFirstSweep == now < CleanupInterval

\* C24: as long as nothing was deleted, one bucket at most was created for
\* each key, and every caller that holds a bucket holds the one of the map.
C24_OneBucketPerKey ==
    BeforeFirstSweep =>
       /\ Len(heap) <= Cardinality(Keys)
       /\ \A p \in Procs :
             allowB[p] # NoBucket => allowB[p] = buckets[allowKey[p]]

(***************************************************************************)
(* C25.  The sweep removes only idle buckets.                              *)
(***************************************************************************)
\* This step of cleanup deletes the bucket of key k (line 121).
Deletes(k) ==
    cleanupPc = "check" /\ buckets[k] # NoBucket /\ buckets'[k] = NoBucket

\* C25: when the sweep that read the clock at cleanupNow deletes the bucket
\* of the key, every allow call on that key that has returned did so more
\* than the idle threshold before.
C25_DeletesOnlyIdle ==
    [][\A k \in Keys :
          Deletes(k) =>
             \A n \in 1..Len(hist) :
                hist[n].t # -1 => cleanupNow - hist[n].t > IdleThreshold]_vars

(***************************************************************************)
(* SpecRLFair: SpecRL with a scheduler that lets a goroutine that can run  *)
(* take its next step: the callers inside allow and the cleanup goroutine. *)
(* New calls and the passing of time are the environment's and are left    *)
(* free.                                                                   *)
(***************************************************************************)
GoroutineRuns ==
    /\ NextRL
    /\ \/ cleanupPc' # cleanupPc
       \/ \E p \in Procs : allowPc[p] # "idle" /\ allowPc'[p] # allowPc[p]

\* The configurations of SpecRLFair: a bucket of one token refilled every
\* five minutes, and one of two tokens refilled every quarter of an hour.
RLFairConfigs ==
    { [MaxRequestsPerMinute |-> 1, WindowDuration |-> 5],
      [MaxRequestsPerMinute |-> 2, WindowDuration |-> 30] }

InitRLFair == InitLimiter(RLFairConfigs, FairCalls) /\ RetryOff /\ BreakerOff

SpecRLFair == InitRLFair /\ [][NextRL]_vars /\ WF_vars(GoroutineRuns)

(***************************************************************************)
(* C26.  allow never blocks for ever.                                      *)
(***************************************************************************)
\* A goroutine has asked for rl.mu.Lock(): sync.RWMutex then holds back
\* every new RLock until that writer is served.
WriterWaiting == cleanupPc = "lock" \/ \E q \in Procs : allowPc[q] = "wlock"

\* Caller p, inside allow, can take its next step now.
CallerCanRun(p) ==
    \/ ENABLED AllowRLock(p) /\ ~WriterWaiting
    \/ ENABLED AllowLookup(p)
    \/ ENABLED AllowLock(p)
    \/ ENABLED AllowCreate(p)
    \/ ENABLED AllowBLock(p)
    \/ ENABLED AllowBody(p)

\* The cleanup goroutine, inside a sweep, can take its next step now.
SweeperCanRun ==
    \/ ENABLED CleanupLock
    \/ \E k \in Keys : ENABLED CleanupBLock(k)
    \/ ENABLED CleanupCheck
    \/ ENABLED CleanupUnlock

\* Whenever a goroutine is inside allow or inside a sweep, one of them can
\* run: they never all wait for locks the others hold.
NoLockWait ==
    (cleanupPc # "wait" \/ \E p \in Procs : allowPc[p] # "idle") =>
       (SweeperCanRun \/ \E p \in Procs : CallerCanRun(p))

C27_HalfOpenCanRecover ==
    cb.state = StateHalfOpen =>
       (InFlight(cb.generation) # {} \/ cb.counts.Requests < cbCfg.maxRequests)

(***************************************************************************)
(* C28.  Do returns nil exactly when its last invocation of the operation  *)
(* returned nil; it never returns nil without an invocation.               *)
(***************************************************************************)
\* The operation was invoked and its last invocation returned nil.
LastInvocationNil == Len(opLog) >= 1 /\ opLog[Len(opLog)] = NoErr

C28_NilIffLastNil ==
    doPc = "done" => (doRet = NoErr <=> LastInvocationNil)

(***************************************************************************)
(* C29.  Every delay Do waits between two attempts is, before the jitter,  *)
(* at most cfg.MaxDelay.                                                   *)
(***************************************************************************)
\* Do is at the select of lines 232-236: delay is the duration that was
\* handed to addJitter for this wait.
Waiting == doPc = "select"

C29_DelayAtMostMax == Waiting => delay <= doCfg.MaxDelay

(***************************************************************************)
(* SpecRLFine: one client calling allow on one key at any minute of the    *)
(* first MaxFine minutes of the limiter, beside the cleanup goroutine (no  *)
(* bucket is ten minutes old: the sweep deletes nothing).  credit follows  *)
(* the one bucket: when it was created, the tokens the refill steps added  *)
(* to it, whether a refill filled it up to the cap, and when the last      *)
(* call ran.                                                               *)
(***************************************************************************)
\* The configurations of SpecRLFine: requests per window, window in minutes.
RLFineConfigs ==
    { [MaxRequestsPerMinute |-> 2, WindowDuration |-> 4],
      [MaxRequestsPerMinute |-> 3, WindowDuration |-> 3],
      [MaxRequestsPerMinute |-> 2, WindowDuration |-> 6] }

\* One minute passes.
TickFine ==
    /\ now + 1 <= MaxFine
    /\ now' = now + 1
    /\ tickPending' = (tickPending \/ TickerFires(now, now + 1))
    /\ UNCHANGED << rl, buckets, heap, rlmu, allowPc, allowKey, allowB,
                    cleanupPc, cleanupNow, cleanupTodo,
                    cleanupCur, budget >>

\* The bucket is created.
ObserveCreate == credit' = [credit EXCEPT !.created = now]

\* The body of a call ran on bucket b: what its refill step added.
ObserveRefill(b) ==
    credit' = [credit EXCEPT
                 !.credited = @ + Refill(b, now).tokens - b.tokens,
                 !.capped = @ \/ (TokensToAdd(b, now) > 0
                                    /\ b.tokens + TokensToAdd(b, now) >= rl.maxTokens),
                 !.last = now]

InitRLFine == InitLimiter(RLFineConfigs, FineCalls) /\ RetryOff /\ BreakerOff

NextRLFine ==
    \/ /\ \E k \in Keys : AllowCall(Client, k) /\ UNCHANGED << rlObs, credit >>
       /\ OtherThanBucket
    \/ /\ AllowRLock(Client) /\ UNCHANGED << rlObs, credit >>
       /\ OtherThanBucket
    \/ /\ AllowLookup(Client) /\ UNCHANGED << rlObs, credit >>
       /\ OtherThanBucket
    \/ /\ AllowLock(Client) /\ UNCHANGED << rlObs, credit >>
       /\ OtherThanBucket
    \/ /\ AllowCreate(Client) /\ ObserveCreate /\ UNCHANGED rlObs
       /\ OtherThanBucket
    \/ /\ AllowBLock(Client) /\ UNCHANGED << rlObs, credit >>
       /\ OtherThanBucket
    \/ /\ AllowBody(Client) /\ ObserveRefill(heap[allowB[Client]]) /\ UNCHANGED rlObs
       /\ OtherThanBucket
    \/ /\ CleanupTick /\ UNCHANGED << rlObs, credit >>
       /\ OtherThanBucket
    \/ /\ CleanupLock /\ UNCHANGED << rlObs, credit >>
       /\ OtherThanBucket
    \/ /\ \E k \in Keys : CleanupBLock(k) /\ UNCHANGED << rlObs, credit >>
       /\ OtherThanBucket
    \/ /\ CleanupCheck /\ UNCHANGED << rlObs, credit >>
       /\ OtherThanBucket
    \/ /\ CleanupUnlock /\ UNCHANGED << rlObs, credit >>
       /\ OtherThanBucket
    \/ /\ TickFine /\ UNCHANGED << rlObs, credit >>
       /\ OtherThanBucket

SpecRLFine == InitRLFine /\ [][NextRLFine]_vars

(***************************************************************************)
(* C30.  A bucket is never under-refilled.                                 *)
(***************************************************************************)
\* C30: as long as no refill step has filled the bucket up to the cap, the
\* tokens credited to it since its creation are, after every call, the whole
\* refill intervals between its creation and that call.
C30_NeverUnderRefilled ==
    (credit.last # -1 /\ ~credit.capped) =>
       credit.credited = (credit.last - credit.created) \div rl.refillRate

====
